---- MODULE Spec2Model ----
(***************************************************************************)
(* A model of src/src/Editor.js: the Editor facade around a Quill widget   *)
(* and an EventEmitter bus.                                                *)
(*                                                                         *)
(* Strings are sequences of one-character strings.  A document is the      *)
(* widget's text content: a sequence of symbols that always ends with a    *)
(* newline; a newline carries the block format of the line it ends.        *)
(* JavaScript values that may be absent are tagged records (Undefined,     *)
(* Null, NaN, Num(i), Str(s)).                                             *)
(***************************************************************************)
EXTENDS Integers, Sequences, FiniteSets, TLC

VARIABLES
    doc,           \* the widget's content (what getLength / getText count)
    dom,           \* children of the ".ql-editor" element, as block nodes
    hasEditorDiv,  \* targetEl.querySelector(".ql-editor") finds the element
    focused,       \* the widget holds focus
    savedRange,    \* the widget's selection range
    listeners,     \* the facade's emitter: event name -> subscriptions
    linkSanitize,  \* the process-wide Link.sanitize in force
    widgets,       \* every Quill instance of the process, in creation order
    held,          \* the HTML the host last got from getHTML, if still current
    reapplied,     \* the content was last set from that very HTML
    lastCall,      \* the last operation: arguments, widget call, result
    lastEmit,      \* the last dispatch: subscriptions before, batches invoked
    lastLink       \* the last link destination stored by a widget

vars == <<doc, dom, hasEditorDiv, focused, savedRange, listeners, linkSanitize,
          widgets, held, reapplied, lastCall, lastEmit, lastLink>>

(***************************************************************************)
(* Bounds of the model.                                                    *)
(***************************************************************************)
MaxDoc == 3
MaxBlocks == 2
MaxSubs == 2
MaxNotify == 2
MaxRest == 1
MaxWidgets == 3

(***************************************************************************)
(* JavaScript values.                                                      *)
(***************************************************************************)
Undefined == [k |-> "undefined"]
Null == [k |-> "null"]
NaN == [k |-> "NaN"]
Num(i) == [k |-> "number", v |-> i]
Str(s) == [k |-> "string", v |-> s]
None == [some |-> FALSE]
Some(x) == [some |-> TRUE, v |-> x]

\* !x of JavaScript
Falsy(x) ==
    \/ x.k \in {"undefined", "null", "NaN"}
    \/ x.k = "number" /\ x.v = 0
    \/ x.k = "string" /\ x.v = <<>>

SeqsUpTo(S, n) == UNION {[1..m -> S] : m \in 0..n}

(***************************************************************************)
(* The link-format override (constructor, lines 31-40).                    *)
(***************************************************************************)
Http == <<"h", "t", "t", "p">>
HttpsPrefix == <<"h", "t", "t", "p", "s", ":", "/", "/">>

\* String.prototype.indexOf: the least 0-based position of pat in s, or -1
IndexOf(s, pat) ==
    LET hits == {i \in 0..(Len(s) - Len(pat)) : SubSeq(s, i + 1, i + Len(pat)) = pat}
    IN IF hits = {} THEN -1 ELSE CHOOSE i \in hits : \A j \in hits : i <= j

\* Link.sanitize = function(url) {...}
OverrideSanitize(url) ==
    IF IndexOf(url, Http) = 0 THEN url ELSE HttpsPrefix \o url

\* the library's own Link.sanitize, in force until a facade is constructed:
\* a destination whose protocol (case ignored; the page's own http(s) when
\* the destination names none) is not on its whitelist becomes about:blank,
\* any other destination is kept as it is
LowerCase(c) ==
    IF c = "H" THEN "h" ELSE IF c = "T" THEN "t" ELSE IF c = "P" THEN "p" ELSE c

DefaultSanitize(url) ==
    LET colon == IndexOf(url, <<":">>)
        protocol == [i \in 1..colon |-> LowerCase(url[i])]
    IN IF colon = -1 \/ protocol \in {Http, Append(Http, "s")} THEN url
       ELSE <<"a", "b", "o", "u", "t", ":", "b", "l", "a", "n", "k">>

ApplySanitize(which, url) ==
    IF which = "override" THEN OverrideSanitize(url) ELSE DefaultSanitize(url)

\* a sanitizer scoped to the widgets a facade created
SanitizerPerInstance(w) ==
    IF widgets[w].viaFacade THEN "override" ELSE "default"

\* Quill.import('formats/link') is one class shared by every widget
SanitizerFor(w) == linkSanitize

UrlPrefixes ==
    { <<>>, <<"w">>, <<"h", "t", "t">>, Http,
      <<"h", "t", "t", "p", ":", "/", "/">>, HttpsPrefix,
      <<"H", "T", "T", "P", ":", "/", "/">>, <<"f", "t", "p", ":", "/", "/">> }
UrlRests == SeqsUpTo({"x", "h"}, MaxRest) \cup {<<"x">> \o Http}
Urls == {p \o r : p \in UrlPrefixes, r \in UrlRests}

(***************************************************************************)
(* Initial states.                                                         *)
(***************************************************************************)
Plain == "a"
Formatted == "a*"
Newline == "\n"
FmtNewline == "\n#"
EventNames == {"text-change", "content-changed"}

\* the dispatch record of an operation that dispatches nothing
NoEmit == [n |-> 0, before |-> [e \in EventNames |-> <<>>], batches |-> <<>>]

EmptyParagraph == [tag |-> "p", text |-> <<>>, margin |-> "none", padding |-> "none"]

\* the process before any facade or widget exists
InitProcess ==
    /\ doc = <<Newline>>
    /\ dom = <<EmptyParagraph>>
    /\ hasEditorDiv = TRUE
    /\ focused = FALSE
    /\ savedRange = [index |-> 0, length |-> 0]
    /\ listeners = [e \in EventNames |-> <<>>]
    /\ linkSanitize = "default"
    /\ widgets = <<>>
    /\ held = None
    /\ reapplied = FALSE
    /\ lastCall = [op |-> "none"]
    /\ lastEmit = NoEmit
    /\ lastLink = None

(***************************************************************************)
(* The widget's document (Quill's content as the facade's calls see it).   *)
(***************************************************************************)
Symbols == {Plain, Formatted, Newline, FmtNewline}
IsNewline(c) == c \in {Newline, FmtNewline}
EndsWithNewline(s) == s # <<>> /\ IsNewline(s[Len(s)])

\* the documents a widget can hold: never empty, always newline-terminated
Docs == {d \in SeqsUpTo(Symbols, MaxDoc) : EndsWithNewline(d)}

\* 1-based position of the first newline of s at or after position p
NewlineFrom(s, p) ==
    CHOOSE q \in p..Len(s) : IsNewline(s[q]) /\ \A r \in p..(q - 1) : ~IsNewline(s[r])

\* quill.getLength()
QuillGetLength(d) == Len(d)

\* quill.deleteText(index, length): the range goes; the document keeps a
\* final newline (the block the range started in survives, or a fresh
\* empty paragraph when nothing is left)
QuillDeleteText(d, index, length) ==
    LET rest == SubSeq(d, 1, index) \o SubSeq(d, index + length + 1, Len(d))
    IN IF rest = <<>> THEN <<Newline>>
       ELSE IF EndsWithNewline(rest) THEN rest
       ELSE Append(rest, d[NewlineFrom(d, index + 1)])

\* inserting content s at index: text put after the last newline starts a
\* new line, which gets a newline of its own
QuillInsert(d, index, s) ==
    LET r == SubSeq(d, 1, index) \o s \o SubSeq(d, index + 1, Len(d))
    IN IF EndsWithNewline(r) THEN r ELSE Append(r, Newline)

\* quill.insertText(index, text, name, true): the text, in format `name`
QuillInsertText(d, index, text) ==
    QuillInsert(d, index, [i \in 1..Len(text) |-> Formatted])

Unformat(c) == IF IsNewline(c) THEN Newline ELSE Plain

\* quill.removeFormat(index, length): every symbol of the range loses its
\* format, and so does the newline ending the line the range stops in
QuillRemoveFormat(d, index, length) ==
    LET stop == index + length
        tail == IF stop < Len(d) THEN {NewlineFrom(d, stop + 1)} ELSE {}
    IN [i \in 1..Len(d) |->
          IF (index < i /\ i <= stop) \/ i \in tail THEN Unformat(d[i]) ELSE d[i]]

(***************************************************************************)
(* HTML: a sequence of nodes.  A block node is a <p> or an <h1> with its   *)
(* inline margin and padding; a "text" node is an inline run.              *)
(***************************************************************************)
BlockOf(text, nl) ==
    [tag |-> IF nl = Newline THEN "p" ELSE "h1", text |-> text,
     margin |-> "none", padding |-> "none"]

\* the widget's rendering of its document: one block per line, no inline
\* margin or padding (its stylesheet provides them)
RECURSIVE Render(_)
Render(d) ==
    IF d = <<>> THEN <<>>
    ELSE LET q == NewlineFrom(d, 1)
         IN <<BlockOf(SubSeq(d, 1, q - 1), d[q])>> \o Render(SubSeq(d, q + 1, Len(d)))

NodeContent(node) ==
    IF node.tag = "text" THEN node.text
    ELSE Append(node.text, IF node.tag = "p" THEN Newline ELSE FmtNewline)

RECURSIVE Concat(_)
Concat(nodes) ==
    IF nodes = <<>> THEN <<>> ELSE NodeContent(Head(nodes)) \o Concat(Tail(nodes))

\* the widget's conversion of pasted HTML: text and line formats are kept,
\* inline margin and padding are not; a trailing plain newline is dropped
Convert(html) ==
    LET c == Concat(html)
    IN IF c # <<>> /\ c[Len(c)] = Newline THEN SubSeq(c, 1, Len(c) - 1) ELSE c

\* quill.pasteHTML(html): the whole content is replaced.  An absent value
\* instead of a string is the error setHTML's coercion exists to prevent.
PasteAll(d, arg) ==
    IF arg.k # "string" THEN [threw |-> TRUE, doc |-> d]
    ELSE LET c == Convert(arg.v)
         IN [threw |-> FALSE,
             doc |-> IF c = <<>> THEN <<Newline>>
                     ELSE IF EndsWithNewline(c) THEN c ELSE Append(c, Newline)]

\* quill.pasteHTML(index, html)
PasteAt(d, index, html) == QuillInsert(d, index, Convert(html))

\* for (const paragraph of tmpDiv.querySelectorAll("p")) {...}
Normalize(nodes) ==
    [i \in 1..Len(nodes) |->
        IF nodes[i].tag = "p"
        THEN [nodes[i] EXCEPT !.margin = "0px", !.padding = "0px"]
        ELSE nodes[i]]

Styles == {<<"none", "none">>, <<"8px", "4px">>}
Blocks == {[tag |-> t, text |-> <<>>, margin |-> s[1], padding |-> s[2]] :
              t \in {"p", "h1"}, s \in Styles}
          \cup {[tag |-> "p", text |-> <<Plain>>, margin |-> "8px", padding |-> "none"]}
Fragments == {<<[tag |-> "text", text |-> <<c>>]>> : c \in {Plain, Formatted}}
HtmlStrings ==
    SeqsUpTo(Blocks, MaxBlocks) \cup Fragments
        \cup {[i \in 1..MaxDoc |-> [tag |-> "p", text |-> <<>>,
                                     margin |-> "none", padding |-> "none"]]}
SmallHtmlStrings == {<<>>} \cup {<<b>> : b \in Blocks} \cup Fragments

(***************************************************************************)
(* The facade's bus (eventemitter3) and the forwarding the constructor     *)
(* wires.                                                                  *)
(***************************************************************************)
Handlers == {"h1", "h2"}

SubCount(ls) == Len(ls["text-change"]) + Len(ls["content-changed"])

\* emitter.on / emitter.once: a subscription is appended
AddListener(ls, e, fn, once) ==
    [ls EXCEPT ![e] = Append(@, [fn |-> fn, once |-> once])]

\* emitter.off(e, fn): every subscription of fn to e goes
RemoveListener(ls, e, fn) ==
    [ls EXCEPT ![e] = SelectSeq(@, LAMBDA l : l.fn # fn)]

\* emitter.emit(e, ...payload): the subscriptions of e, in order; the
\* one-shot ones are unsubscribed as they are called
EmitterEmit(ls, e, payload) ==
    [invoked |-> [i \in 1..Len(ls[e]) |-> [fn |-> ls[e][i].fn, payload |-> payload]],
     ls |-> [ls EXCEPT ![e] = SelectSeq(@, LAMBDA l : ~l.once)]]

\* what the widget hands its own "text-change" listeners
WidgetPayload == <<"delta", "oldDelta", "source">>

\* forwarding under the name the spec uses for the event
ForwardRenamed(ls, payload) == EmitterEmit(ls, "content-changed", <<>>)

\* forwarding in reverse subscription order
ForwardReversed(ls, payload) ==
    LET r == EmitterEmit(ls, "text-change", <<>>)
    IN [r EXCEPT !.invoked = [i \in 1..Len(@) |-> @[Len(@) + 1 - i]]]

\* quill.on("text-change", function () { emitter.emit("text-change"); })
Forward(ls, payload) == EmitterEmit(ls, "text-change", <<>>)

\* the widget reports n change notifications, one after the other
RECURSIVE Dispatch(_, _)
Dispatch(ls, n) ==
    IF n = 0 THEN [ls |-> ls, batches |-> <<>>]
    ELSE LET f == Forward(ls, WidgetPayload)
             rest == Dispatch(f.ls, n - 1)
         IN [ls |-> rest.ls, batches |-> <<f.invoked>> \o rest.batches]

Notified(n) ==
    LET r == Dispatch(listeners, n)
    IN /\ listeners' = r.ls
       /\ lastEmit' = [n |-> n, before |-> listeners, batches |-> r.batches]

\* a content change: the editor element is re-rendered, and HTML the host
\* holds is current only if the content was set from it
Changed(d, fromHeld) ==
    /\ doc' = d
    /\ dom' = Render(d)
    /\ held' = IF fromHeld THEN held ELSE None
    /\ reapplied' = fromHeld

(***************************************************************************)
(* The facade's operations.                                                *)
(***************************************************************************)
\* setHTML without the coercion
SetHTMLArgRaw(html) == html

\* html = html || ""
SetHTMLArg(html) == IF Falsy(html) THEN Str(<<>>) ELSE html

\* Editor.prototype.setHTML
SetHTML(html, n) ==
    LET arg == SetHTMLArg(html)
        r == PasteAll(doc, arg)
    IN /\ Len(r.doc) <= MaxDoc
       /\ IF r.threw
          THEN lastEmit' = NoEmit /\ UNCHANGED <<doc, dom, held, reapplied, listeners>>
          ELSE Changed(r.doc, held.some /\ arg = Str(held.v)) /\ Notified(n)
       /\ lastCall' = [op |-> "setHTML", given |-> html.k, blank |-> Falsy(html),
                       widgetArg |-> arg.k, widgetBlank |-> Falsy(arg),
                       threw |-> r.threw, lenBefore |-> Len(doc)]
       /\ UNCHANGED <<hasEditorDiv, focused, savedRange, linkSanitize, widgets, lastLink>>

\* index = index || this.getLength()
InsertIndexFalsy(index, len) == IF Falsy(index) THEN Num(len) ELSE index

\* if (!index && index !== 0) { index = this.getLength(); }
InsertIndex(index, len) ==
    IF Falsy(index) /\ index # Num(0) THEN Num(len) ELSE index

\* Editor.prototype.insertHTML
InsertHTML(html, index, n) ==
    LET at == InsertIndex(index, QuillGetLength(doc))
    IN /\ at.k = "number" /\ at.v \in 0..Len(doc)
       /\ Len(PasteAt(doc, at.v, html)) <= MaxDoc
       /\ Changed(PasteAt(doc, at.v, html), FALSE)
       /\ Notified(n)
       /\ lastCall' = [op |-> "insertHTML", index |-> index, passed |-> at,
                       content |-> Convert(html), lenBefore |-> Len(doc)]
       /\ UNCHANGED <<hasEditorDiv, focused, savedRange, linkSanitize, widgets, lastLink>>

\* Editor.prototype.insertText
InsertText(text, name, index, n) ==
    LET at == InsertIndex(index, QuillGetLength(doc))
    IN /\ at.k = "number" /\ at.v \in 0..Len(doc)
       /\ Len(QuillInsertText(doc, at.v, text)) <= MaxDoc
       /\ Changed(QuillInsertText(doc, at.v, text), FALSE)
       /\ Notified(n)
       /\ lastCall' = [op |-> "insertText", index |-> index, passed |-> at,
                       content |-> [i \in 1..Len(text) |-> Formatted],
                       lenBefore |-> Len(doc)]
       /\ UNCHANGED <<hasEditorDiv, focused, savedRange, linkSanitize, widgets, lastLink>>

\* the arguments in the wrong order
DeleteTextArgsSwapped(index, length) == <<length, index>>

\* this._quill.deleteText(index, length)
DeleteTextArgs(index, length) == <<index, length>>

\* Editor.prototype.deleteText
DeleteText(index, length, n) ==
    LET a == DeleteTextArgs(index, length)
    IN /\ a[1] + a[2] <= Len(doc)
       /\ Changed(QuillDeleteText(doc, a[1], a[2]), FALSE)
       /\ Notified(n)
       /\ lastCall' = [op |-> "deleteText", index |-> index, length |-> length,
                       lenBefore |-> Len(doc)]
       /\ UNCHANGED <<hasEditorDiv, focused, savedRange, linkSanitize, widgets, lastLink>>

\* Editor.prototype.removeFormat
RemoveFormat(index, length, n) ==
    /\ index + length <= Len(doc)
    /\ Changed(QuillRemoveFormat(doc, index, length), FALSE)
    /\ Notified(n)
    /\ lastCall' = [op |-> "removeFormat", index |-> index, length |-> length,
                    lenBefore |-> Len(doc)]
    /\ UNCHANGED <<hasEditorDiv, focused, savedRange, linkSanitize, widgets, lastLink>>

\* this.targetEl.querySelector(".ql-editor")
EditorContentDiv == IF hasEditorDiv THEN Some(dom) ELSE None

\* no check of the lookup: an empty result where the element is missing
GetHTMLThrowsNever(div) == FALSE

\* if(!editorContentDiv) { throw new Error("Couldn't find editor contents"); }
GetHTMLThrows(div) == ~div.some

\* the paragraphs styled where they are, in the editor's own element
DomStyledInPlace(nodes) == Normalize(nodes)

\* tmpDiv.innerHTML = editorContentDiv.innerHTML: the editor's own element
\* is read, never written
DomAfterGetHTML(nodes) == nodes

\* Editor.prototype.getHTML
GetHTML ==
    LET div == EditorContentDiv
    IN /\ IF GetHTMLThrows(div)
          THEN /\ lastCall' = [op |-> "getHTML", found |-> div.some, threw |-> TRUE,
                               error |-> "Couldn't find editor contents",
                               result |-> None, prior |-> None,
                               docBefore |-> doc, domBefore |-> dom,
                               subsBefore |-> listeners]
               /\ UNCHANGED <<dom, held, reapplied>>
          ELSE LET html == IF div.some THEN Normalize(div.v) ELSE <<>>
               IN /\ lastCall' = [op |-> "getHTML", found |-> div.some, threw |-> FALSE,
                                  error |-> "",
                                  result |-> Some(html),
                                  prior |-> IF reapplied THEN held ELSE None,
                                  docBefore |-> doc, domBefore |-> dom,
                                  subsBefore |-> listeners]
                  /\ dom' = DomAfterGetHTML(dom)
                  /\ held' = Some(html)
                  /\ reapplied' = FALSE
       /\ lastEmit' = NoEmit
       /\ UNCHANGED <<doc, hasEditorDiv, focused, savedRange, listeners, linkSanitize,
                      widgets, lastLink>>

\* the state after new Editor(targetEl, options) on an empty mount element
Init ==
    /\ doc = <<Newline>>
    /\ dom = <<EmptyParagraph>>
    /\ hasEditorDiv = TRUE
    /\ focused = FALSE
    /\ savedRange = [index |-> 0, length |-> 0]
    /\ listeners = [e \in EventNames |-> <<>>]
    /\ linkSanitize = "override"
    /\ widgets = <<[viaFacade |-> TRUE]>>
    /\ held = None
    /\ reapplied = FALSE
    /\ lastCall = [op |-> "construct"]
    /\ lastEmit = NoEmit
    /\ lastLink = None

HtmlArgs ==
    {Undefined, Null} \cup {Str(h) : h \in HtmlStrings}
        \cup (IF held.some THEN {Str(held.v)} ELSE {})
IndexArgs == {Undefined, Null, NaN} \cup {Num(i) : i \in 0..Len(doc)}
Texts == {<<Plain>>}

Next ==
    \/ \E html \in HtmlArgs : SetHTML(html, 1)
    \/ \E html \in SmallHtmlStrings, index \in IndexArgs : InsertHTML(html, index, 1)
    \/ \E text \in Texts, index \in IndexArgs : InsertText(text, "placeholder", index, 1)
    \/ \E index \in 0..Len(doc) : \E length \in 0..(Len(doc) - index) :
           DeleteText(index, length, 1)
    \/ \E index \in 0..Len(doc) : \E length \in 0..(Len(doc) - index) :
           RemoveFormat(index, length, 1)
    \/ GetHTML

Spec == Init /\ [][Next]_vars

(***************************************************************************)
(* Subscriptions, and changes the widget reports on its own.               *)
(***************************************************************************)
\* Editor.prototype.on
On(e, fn) ==
    /\ SubCount(listeners) < MaxSubs
    /\ listeners' = AddListener(listeners, e, fn, FALSE)
    /\ lastCall' = [op |-> "on", event |-> e, fn |-> fn]
    /\ lastEmit' = NoEmit
    /\ UNCHANGED <<doc, dom, hasEditorDiv, focused, savedRange, linkSanitize, widgets,
                   held, reapplied, lastLink>>

\* Editor.prototype.once
Once(e, fn) ==
    /\ SubCount(listeners) < MaxSubs
    /\ listeners' = AddListener(listeners, e, fn, TRUE)
    /\ lastCall' = [op |-> "once", event |-> e, fn |-> fn]
    /\ lastEmit' = NoEmit
    /\ UNCHANGED <<doc, dom, hasEditorDiv, focused, savedRange, linkSanitize, widgets,
                   held, reapplied, lastLink>>

\* Editor.prototype.off
Off(e, fn) ==
    /\ listeners' = RemoveListener(listeners, e, fn)
    /\ lastCall' = [op |-> "off", event |-> e, fn |-> fn]
    /\ lastEmit' = NoEmit
    /\ UNCHANGED <<doc, dom, hasEditorDiv, focused, savedRange, linkSanitize, widgets,
                   held, reapplied, lastLink>>

\* the user types a character at the end of the last line: the widget
\* changes its content and reports the change
UserEdit ==
    /\ Len(doc) < MaxDoc
    /\ Changed(QuillInsert(doc, Len(doc) - 1, <<Plain>>), FALSE)
    /\ Notified(1)
    /\ lastCall' = [op |-> "userEdit", lenBefore |-> Len(doc)]
    /\ UNCHANGED <<hasEditorDiv, focused, savedRange, linkSanitize, widgets, lastLink>>

\* the host takes the editable element out of the mount element
RemoveEditorDiv ==
    /\ hasEditorDiv
    /\ hasEditorDiv' = FALSE
    /\ lastCall' = [op |-> "removeEditorDiv"]
    /\ lastEmit' = NoEmit
    /\ UNCHANGED <<doc, dom, focused, savedRange, listeners, linkSanitize, widgets,
                   held, reapplied, lastLink>>

NextEvents ==
    \/ \E e \in EventNames, fn \in Handlers : On(e, fn)
    \/ \E e \in EventNames, fn \in Handlers : Once(e, fn)
    \/ \E e \in EventNames, fn \in Handlers : Off(e, fn)
    \/ \E n \in 0..MaxNotify : SetHTML(Str(<<>>), n)
    \/ \E n \in 0..MaxNotify : InsertHTML(<<[tag |-> "text", text |-> <<Plain>>]>>, Num(0), n)
    \/ \E n \in 0..MaxNotify : InsertText(<<Plain>>, "placeholder", Undefined, n)
    \/ \E n \in 0..MaxNotify : DeleteText(0, 1, n)
    \/ \E n \in 0..MaxNotify : RemoveFormat(0, Len(doc), n)
    \/ UserEdit

SpecEvents == Init /\ [][NextEvents]_vars

NextLookup ==
    \/ \E fn \in Handlers : On("text-change", fn)
    \/ \E html \in SmallHtmlStrings : SetHTML(Str(html), 1)
    \/ InsertText(<<Plain>>, "placeholder", Undefined, 1)
    \/ GetHTML
    \/ RemoveEditorDiv

SpecLookup == Init /\ [][NextLookup]_vars

(***************************************************************************)
(* Selection.                                                              *)
(***************************************************************************)
\* the facade calling getSelection() without its argument
GetSelectionArgDropped(forceFocus) == FALSE

\* this._quill.getSelection(forceFocus)
GetSelectionArg(forceFocus) == forceFocus

\* quill.getSelection(focus): focus is taken first when asked for; the
\* range is known only to a widget that holds focus
QuillGetSelection(isFocused, range, focus) ==
    LET f == isFocused \/ focus
    IN [focused |-> f, result |-> IF f THEN Some(range) ELSE None]

\* Editor.prototype.getSelection
GetSelection(forceFocus) ==
    LET r == QuillGetSelection(focused, savedRange, GetSelectionArg(forceFocus))
    IN /\ focused' = r.focused
       /\ lastCall' = [op |-> "getSelection", forceFocus |-> forceFocus,
                       focusedBefore |-> focused, result |-> r.result,
                       afterForced |-> /\ lastCall.op = "getSelection"
                                       /\ lastCall.forceFocus
                                       /\ ~lastCall.focusedBefore]
       /\ UNCHANGED <<doc, dom, hasEditorDiv, savedRange, listeners, linkSanitize,
                      widgets, held, reapplied, lastEmit, lastLink>>

\* Editor.prototype.setSelection: the widget takes focus and the range
SetSelection(index, length) ==
    /\ index + length <= Len(doc) - 1
    /\ focused' = TRUE
    /\ savedRange' = [index |-> index, length |-> length]
    /\ lastCall' = [op |-> "setSelection"]
    /\ UNCHANGED <<doc, dom, hasEditorDiv, listeners, linkSanitize, widgets,
                   held, reapplied, lastEmit, lastLink>>

\* focus moves to another element of the page
UserBlur ==
    /\ focused
    /\ focused' = FALSE
    /\ lastCall' = [op |-> "blur"]
    /\ UNCHANGED <<doc, dom, hasEditorDiv, savedRange, listeners, linkSanitize,
                   widgets, held, reapplied, lastEmit, lastLink>>

\* the state after new Editor(targetEl, options) on a mount element that
\* already holds content
InitLoaded ==
    /\ doc \in Docs
    /\ dom = Render(doc)
    /\ hasEditorDiv = TRUE
    /\ focused = FALSE
    /\ savedRange = [index |-> 0, length |-> 0]
    /\ listeners = [e \in EventNames |-> <<>>]
    /\ linkSanitize = "override"
    /\ widgets = <<[viaFacade |-> TRUE]>>
    /\ held = None
    /\ reapplied = FALSE
    /\ lastCall = [op |-> "construct"]
    /\ lastEmit = NoEmit
    /\ lastLink = None

NextSelection ==
    \/ \E forceFocus \in BOOLEAN : GetSelection(forceFocus)
    \/ \E index \in 0..(Len(doc) - 1) : \E length \in 0..(Len(doc) - 1 - index) :
           SetSelection(index, length)
    \/ UserBlur

SpecSelection == InitLoaded /\ [][NextSelection]_vars

(***************************************************************************)
(* The process: facades and widgets created, links stored.                 *)
(***************************************************************************)
\* new Editor(targetEl, options): a widget of its own, and the override
Construct ==
    /\ Len(widgets) < MaxWidgets
    /\ widgets' = Append(widgets, [viaFacade |-> TRUE])
    /\ linkSanitize' = "override"
    /\ lastCall' = [op |-> "construct"]
    /\ UNCHANGED <<doc, dom, hasEditorDiv, focused, savedRange, listeners,
                   held, reapplied, lastEmit, lastLink>>

\* new Quill(el, options) by code that does not go through the facade
NewQuill ==
    /\ Len(widgets) < MaxWidgets
    /\ widgets' = Append(widgets, [viaFacade |-> FALSE])
    /\ lastCall' = [op |-> "newQuill"]
    /\ UNCHANGED <<doc, dom, hasEditorDiv, focused, savedRange, listeners,
                   linkSanitize, held, reapplied, lastEmit, lastLink>>

\* widget w inserts or edits a link: the link format sanitizes the destination
FormatLink(w, url) ==
    /\ lastLink' = Some([widget |-> w,
                         viaFacade |-> widgets[w].viaFacade,
                         facadesBefore |-> Len(SelectSeq(SubSeq(widgets, 1, w - 1),
                                                         LAMBDA x : x.viaFacade)),
                         facades |-> Len(SelectSeq(widgets, LAMBDA x : x.viaFacade)),
                         url |-> url,
                         stored |-> ApplySanitize(SanitizerFor(w), url)])
    /\ lastCall' = [op |-> "formatLink"]
    /\ UNCHANGED <<doc, dom, hasEditorDiv, focused, savedRange, listeners,
                   linkSanitize, widgets, held, reapplied, lastEmit>>

NextLink ==
    \/ Construct
    \/ NewQuill
    \/ \E w \in 1..Len(widgets), url \in Urls : FormatLink(w, url)

SpecLink == InitProcess /\ [][NextLink]_vars

(***************************************************************************)
(* Properties.                                                             *)
(***************************************************************************)
\* the subscriptions of "text-change" in force at the k-th notification of
\* the last operation: those held before it, the one-shot ones only at the first
InForce(k) ==
    IF k = 1 THEN lastEmit.before["text-change"]
    ELSE SelectSeq(lastEmit.before["text-change"], LAMBDA l : ~l.once)

\* C1: a destination handled by the override that does not start with an
\* HTTP scheme prefix ("http://" or "https://") is stored as "https://"
\* followed by it, and the override leaves that result alone; one that
\* starts with such a prefix is stored unchanged.
C1_SchemePrefixDecides ==
    (lastLink.some /\ lastLink.v.facades >= 1) =>
        LET u == lastLink.v.url
            stored == lastLink.v.stored
            hasScheme == \/ Len(u) >= 7 /\ SubSeq(u, 1, 7) = <<"h", "t", "t", "p", ":", "/", "/">>
                         \/ Len(u) >= 8 /\ SubSeq(u, 1, 8) = HttpsPrefix
        IN IF hasScheme THEN stored = u
           ELSE stored = HttpsPrefix \o u /\ OverrideSanitize(stored) = stored

\* C2, as stated: a handler registered with on("content-changed", h) is
\* invoked exactly once at every change notification the widget reports.
C2_ContentChangedHandlerInvoked ==
    \A h \in Handlers :
        (\E i \in 1..Len(lastEmit.before["content-changed"]) :
            lastEmit.before["content-changed"][i] = [fn |-> h, once |-> FALSE])
        => \A k \in 1..lastEmit.n :
              /\ k <= Len(lastEmit.batches)
              /\ Len(SelectSeq(lastEmit.batches[k], LAMBDA c : c.fn = h)) = 1

\* C2, amended: the event the facade emits is "text-change".  Every change
\* notification the widget reports invokes a handler once for each of its
\* subscriptions to "text-change" then in force (so a handler subscribed
\* under any other name is not invoked); there are as many dispatches as
\* notifications, none without one and none dropped.
C2_TextChangeHandlerInvoked ==
    /\ Len(lastEmit.batches) = lastEmit.n
    /\ \A k \in 1..Len(lastEmit.batches) : \A h \in Handlers :
          Len(SelectSeq(lastEmit.batches[k], LAMBDA c : c.fn = h))
              = Len(SelectSeq(InForce(k), LAMBDA l : l.fn = h))

C2_Witness ==
    /\ lastCall.op = "deleteText"
    /\ lastEmit.n = 2
    /\ lastEmit.before["text-change"] = <<[fn |-> "h1", once |-> FALSE]>>
    /\ lastEmit.before["content-changed"] = <<[fn |-> "h2", once |-> FALSE]>>
    /\ lastEmit.batches = << <<[fn |-> "h1", payload |-> <<>>]>>,
                             <<[fn |-> "h1", payload |-> <<>>]>> >>

\* C3: insertHTML and insertText pass the widget getLength() at the moment
\* of the call when the index is omitted (the content goes after the
\* current end), 0 when the index is the literal 0, and any other number
\* unchanged.
C3_InsertIndex ==
    lastCall.op \in {"insertHTML", "insertText"} =>
        /\ lastCall.index = Undefined =>
              /\ lastCall.passed = Num(lastCall.lenBefore)
              /\ SubSeq(doc, lastCall.lenBefore + 1,
                        lastCall.lenBefore + Len(lastCall.content)) = lastCall.content
        /\ lastCall.index = Num(0) => lastCall.passed = Num(0)
        /\ lastCall.index.k = "number" => lastCall.passed = lastCall.index

C3_Witness ==
    /\ lastCall.op = "insertText"
    /\ lastCall.index = Num(0)
    /\ lastCall.lenBefore > 1
    /\ lastCall.passed = Num(0)
    /\ doc[1] = Formatted

\* C4: setHTML(undefined) and setHTML(null) do what setHTML("") does, from
\* any content: the widget is handed an empty string, the call does not
\* fail, and the editable region is left empty.
C4_AbsentIsEmpty ==
    (lastCall.op = "setHTML" /\ lastCall.blank) =>
        /\ lastCall.widgetArg = "string"
        /\ lastCall.widgetBlank
        /\ ~lastCall.threw
        /\ doc = <<Newline>>
        /\ dom = <<EmptyParagraph>>

C4_Witness ==
    /\ lastCall.op = "setHTML"
    /\ lastCall.given = "undefined"
    /\ lastCall.lenBefore > 1
    /\ doc = <<Newline>>

\* C5: on an editor without focus getSelection(false) returns nothing and
\* leaves it without focus; getSelection(true) returns an {index, length}
\* pair and leaves it focused, and a getSelection(false) right after that
\* returns a pair too.
C5_SelectionAndFocus ==
    lastCall.op = "getSelection" =>
        /\ (~lastCall.focusedBefore /\ ~lastCall.forceFocus) =>
              (lastCall.result = None /\ ~focused)
        /\ (~lastCall.focusedBefore /\ lastCall.forceFocus) =>
              /\ lastCall.result.some
              /\ lastCall.result.v.index \in Nat
              /\ lastCall.result.v.length \in Nat
              /\ focused
        /\ (lastCall.afterForced /\ ~lastCall.forceFocus) =>
              (lastCall.result.some /\ lastCall.result.v = savedRange)

C5_Witness ==
    /\ lastCall.op = "getSelection"
    /\ lastCall.afterForced
    /\ ~lastCall.forceFocus
    /\ lastCall.result.some
    /\ focused

\* C6, as stated: deleteText(index, length) with index + length within the
\* content lowers getLength() by exactly length, also when the range runs
\* to the last counted character.
C6_DeleteLowersLengthByLength ==
    lastCall.op = "deleteText" =>
        QuillGetLength(doc) = lastCall.lenBefore - lastCall.length

\* C6, amended: when the range stops before the trailing newline
\* (index + length <= getLength() - 1) getLength() drops by exactly length;
\* a range that takes in the trailing newline may leave it one higher, for
\* the widget always keeps a final newline, and the length is never below 1.
C6_DeleteKeepsFinalNewline ==
    lastCall.op = "deleteText" =>
        LET expected == lastCall.lenBefore - lastCall.length
        IN /\ lastCall.index + lastCall.length < lastCall.lenBefore =>
                 QuillGetLength(doc) = expected
           /\ lastCall.index + lastCall.length = lastCall.lenBefore =>
                 QuillGetLength(doc) \in {expected, expected + 1}
           /\ QuillGetLength(doc) >= 1

C6_Witness ==
    /\ lastCall.op = "deleteText"
    /\ lastCall.length >= 2
    /\ lastCall.index + lastCall.length < lastCall.lenBefore
    /\ QuillGetLength(doc) = lastCall.lenBefore - lastCall.length

\* C7: getHTML throws its lookup error exactly when the editable element is
\* not found under the mount element; it then returns no HTML and changes
\* neither the content nor the subscriptions.
C7_LookupError ==
    lastCall.op = "getHTML" =>
        /\ lastCall.threw <=> ~hasEditorDiv
        /\ lastCall.threw <=> ~lastCall.found
        /\ lastCall.threw =>
              /\ lastCall.error = "Couldn't find editor contents"
              /\ lastCall.result = None
              /\ doc = lastCall.docBefore
              /\ dom = lastCall.domBefore
              /\ listeners = lastCall.subsBefore
        /\ ~lastCall.threw => lastCall.result.some

C7_Witness ==
    /\ lastCall.op = "getHTML"
    /\ lastCall.threw
    /\ Len(listeners["text-change"]) >= 1
    /\ Len(doc) > 1

\* C8, as stated: HTML got from getHTML and put back with setHTML is got
\* again unchanged.
C8_RoundTripAlways ==
    (lastCall.op = "getHTML" /\ ~lastCall.threw /\ lastCall.prior.some) =>
        lastCall.result = lastCall.prior

\* C8, amended: HTML got from getHTML and put back with setHTML is got
\* again unchanged, unless it ends with an empty paragraph that follows
\* another block: then it is got again without that last paragraph.  Every
\* paragraph of the result has zero margin and padding, and reading leaves
\* the editor's own element and content as they were.
C8_RoundTrip ==
    (lastCall.op = "getHTML" /\ ~lastCall.threw) =>
        /\ lastCall.prior.some =>
              LET h == lastCall.prior.v
                  last == h[Len(h)]
              IN IF Len(h) >= 2 /\ last.tag = "p" /\ last.text = <<>>
                 THEN lastCall.result.v = SubSeq(h, 1, Len(h) - 1)
                 ELSE lastCall.result = lastCall.prior
        /\ \A i \in 1..Len(lastCall.result.v) :
              LET node == lastCall.result.v[i]
              IN /\ node.tag = "p" => (node.margin = "0px" /\ node.padding = "0px")
                 /\ node.tag # "p" => node = lastCall.domBefore[i]
                 /\ node.tag = lastCall.domBefore[i].tag
                 /\ node.text = lastCall.domBefore[i].text
        /\ Len(lastCall.result.v) = Len(lastCall.domBefore)
        /\ dom = lastCall.domBefore
        /\ doc = lastCall.docBefore
        /\ \A i \in 1..Len(dom) : dom[i].margin = "none" /\ dom[i].padding = "none"

C8_Witness ==
    /\ lastCall.op = "getHTML"
    /\ lastCall.prior.some
    /\ lastCall.result = lastCall.prior
    /\ \E i, j \in 1..Len(lastCall.result.v) :
          /\ lastCall.result.v[i].tag = "p"
          /\ lastCall.result.v[i].text # <<>>
          /\ lastCall.result.v[j].tag = "h1"

\* C9: at each change notification the bus invokes the subscriptions held
\* at that moment, each once, in subscription order, without payload, and
\* within the call that caused it; off leaves no subscription of the
\* handler, and a one-shot subscription is gone after its first notification.
C9_DispatchOrder ==
    /\ \A k \in 1..Len(lastEmit.batches) :
          lastEmit.batches[k]
              = [i \in 1..Len(InForce(k)) |-> [fn |-> InForce(k)[i].fn, payload |-> <<>>]]
    /\ lastEmit.n >= 1 =>
          /\ lastCall.op \in {"setHTML", "insertHTML", "insertText", "deleteText",
                              "removeFormat", "userEdit"}
          /\ listeners["text-change"]
                = SelectSeq(lastEmit.before["text-change"], LAMBDA l : ~l.once)
    /\ lastCall.op = "off" =>
          \A i \in 1..Len(listeners[lastCall.event]) :
              listeners[lastCall.event][i].fn # lastCall.fn

C9_Witness ==
    /\ lastEmit.n = 2
    /\ lastEmit.before["text-change"] = <<[fn |-> "h2", once |-> TRUE],
                                          [fn |-> "h1", once |-> FALSE]>>
    /\ lastEmit.batches = << <<[fn |-> "h2", payload |-> <<>>],
                               [fn |-> "h1", payload |-> <<>>]>>,
                             <<[fn |-> "h1", payload |-> <<>>]>> >>
    /\ listeners["text-change"] = <<[fn |-> "h1", once |-> FALSE]>>

\* C10: once a facade has been constructed the override is the sanitizer
\* of the process: every widget stores destinations as the override
\* rewrites them, whether or not a facade created it and whether it was
\* created before the first facade, and further facades change nothing.
C10_OverrideIsProcessWide ==
    /\ (\E i \in 1..Len(widgets) : widgets[i].viaFacade) => linkSanitize = "override"
    /\ (lastLink.some /\ lastLink.v.facades >= 1) =>
          lastLink.v.stored = OverrideSanitize(lastLink.v.url)

C10_Witness ==
    /\ lastLink.some
    /\ ~lastLink.v.viaFacade
    /\ lastLink.v.facadesBefore = 0
    /\ lastLink.v.facades >= 2
    /\ lastLink.v.stored = HttpsPrefix \o lastLink.v.url

====
